---- MODULE Spec2Model ----
(***************************************************************************)
(* AVLTree (src/avl.py) on top of BinarySearchTree (src/bst.py), and the   *)
(* LinearProbeTable (src/hash_table.py) with its LargestPrimeIterator      *)
(* (src/primes.py).                                                        *)
(*                                                                         *)
(* Tree nodes are Python objects: they live in a heap, a function from     *)
(* node identities to records of their fields, and the tree holds a        *)
(* reference to its root.  Every method is translated statement by         *)
(* statement; a method that raises returns the heap as it was when the     *)
(* exception left it, so a partial update would stay visible.              *)
(***************************************************************************)
EXTENDS Integers, Sequences, FiniteSets, TLC

\* ------------------------------------------------------------------ bounds
MaxKey == 4          \* keys of the general specification are 1..MaxKey
MaxItem == 2         \* items are 1..MaxItem
MaxGrowKey == 11     \* keys of the growth-only specification
MaxRecursion == 8    \* nested rebalance / rotate calls before RecursionError
NumIters == 2        \* iterators in use at the same time
MaxRotKey == 7       \* keys of the specification that keeps the journals
MaxExpected == 8     \* expected sizes of a table are 2..MaxExpected
MaxProbeTotal == 3   \* calls on a table are made while probe_total is below
MaxUpperBound == 12  \* initial upper bounds of an iterator are 2..MaxUpperBound
MaxFactor == 3       \* factors of an iterator are 1..MaxFactor
MaxPrime == 200      \* next() is called while the upper bound is at most this

Keys == 1..MaxKey
Items == 1..MaxItem
GrowKeys == 1..MaxGrowKey
RotKeys == 1..MaxRotKey
Indexes == (0 - 1)..MaxKey

\* ------------------------------------------------------------------- state
VARIABLES
    heap,      \* node identity -> [key, item, left, right, height, size]
    root,      \* BinarySearchTree.root
    length,    \* BinarySearchTree.length
    res,       \* the last public call: its name, the exception it raised
               \* (OK when none), the value it returned
    absmap,    \* history: the key -> item map the successful calls built
    iters,     \* the BSTInOrderIterator objects in use, by slot
    rots,      \* history: the journal of the rotation calls of the last
               \* public call, in the specifications that keep it
    ref,       \* history: the tree the reference procedure builds from the
               \* same calls, in the specifications that keep the journal
    lpt,       \* a LinearProbeTable object (src/hash_table.py)
    primes,    \* a LargestPrimeIterator object (src/primes.py)
    past       \* history of the table and of the iterator: the arguments
               \* they were built with, the key -> data map the calls
               \* built, the primes returned

vars == <<heap, root, length, res, absmap, iters, rots, ref, lpt, primes, past>>

\* The other component: the table and the iterator, which no call on a
\* tree touches.
apart == <<lpt, primes, past>>

Null == 0
OK == "ok"

\* No object of the class has been built.
Absent == <<>>

Max(a, b) == IF a >= b THEN a ELSE b

\* A new node object: AVLTreeNode(key, item), a leaf.
AVLTreeNode(key, item) ==
    [key |-> key, item |-> item, left |-> Null, right |-> Null,
     height |-> 1, size |-> 1]

\* The identity of a newly created object: one not in use.
Fresh(h) == CHOOSE n \in 1..(Cardinality(DOMAIN h) + 1) : n \notin DOMAIN h

Alloc(h, n, node) == h @@ (n :> node)

\* --------------------------------------------------------------- bst.py
is_empty(rt) == rt = Null

is_leaf(h, current) == h[current].left = Null /\ h[current].right = Null

\* A slip in get_minimal: the node itself, without the walk to the left.
get_minimal_no_walk(h, current) == current

RECURSIVE get_minimal(_, _)
get_minimal(h, current) ==
    IF current # Null /\ h[current].left # Null
    THEN get_minimal(h, h[current].left)
    ELSE current

RECURSIVE get_maximal(_, _)
get_maximal(h, current) ==
    IF current # Null /\ h[current].right # Null
    THEN get_maximal(h, h[current].right)
    ELSE current

\* A slip in get_successor: the right child itself, not its leftmost node.
get_successor_right_child(h, current) == h[current].right

\* A slip in get_successor: the largest node of the right subtree.
get_successor_maximal(h, current) ==
    IF h[current].right # Null THEN get_maximal(h, h[current].right) ELSE Null

get_successor(h, current) ==
    IF h[current].right # Null THEN get_minimal(h, h[current].right) ELSE Null

\* --------------------------------------------------------------- avl.py
get_height(h, current) == IF current # Null THEN h[current].height ELSE 0

get_balance(h, current) ==
    IF current = Null THEN 0
    ELSE get_height(h, h[current].right) - get_height(h, h[current].left)

\* A slip in size: the right subtree is left out when both children exist.
size_without_right(h, current) ==
    IF current = Null THEN [h |-> h, v |-> 0]
    ELSE LET l == h[current].left
             r == h[current].right
             v == IF is_leaf(h, current) THEN 1
                  ELSE IF l = Null THEN h[r].size + 1
                  ELSE h[l].size + 1
         IN [h |-> [h EXCEPT ![current].size = v], v |-> v]

\* size(current): recomputes the cached size of current from the cached
\* sizes of its children, stores it, and returns it.
size(h, current) ==
    IF current = Null THEN [h |-> h, v |-> 0]
    ELSE LET l == h[current].left
             r == h[current].right
             v == IF is_leaf(h, current) THEN 1
                  ELSE IF l = Null THEN h[r].size + 1
                  ELSE IF r = Null THEN h[l].size + 1
                  ELSE h[l].size + h[r].size + 1
         IN [h |-> [h EXCEPT ![current].size = v], v |-> v]

\* current.height = max(get_height(left), get_height(right)) + 1
SetHeight(h, n) ==
    [h EXCEPT ![n].height =
        Max(get_height(h, h[n].left), get_height(h, h[n].right)) + 1]

\* current.size = self.size(current)
SetSize(h, n) == size(h, n).h

\* What a call hands back: the heap it leaves, the node it returns, the
\* exception it raised (OK when none) and, as history, the journal of the
\* rotation calls made on its behalf, in the order in which they began.
Raise(h, e) == [h |-> h, r |-> Null, err |-> e, rot |-> <<>>]
Return(h, r) == [h |-> h, r |-> r, err |-> OK, rot |-> <<>>]

\* The journal entry of one rotation call: the heap and the node it was
\* given, the heap it left, the node it returned, the exception it raised.
Called(op, h, current, out) ==
    [out EXCEPT !.rot = <<[op |-> op, before |-> h, node |-> current,
                           after |-> out.h, ret |-> out.r,
                           err |-> out.err]>> \o @]

\* out is the outcome of a call made after the call first had returned.
After(first, out) ==
    IF first.rot = <<>> THEN out ELSE [out EXCEPT !.rot = first.rot \o @]

RECURSIVE rebalance(_, _, _)
RECURSIVE left_rotate(_, _, _)
RECURSIVE right_rotate(_, _, _)

\* A slip in left_rotate: no check of current and its right child, so that
\* the first read of a field of None raises.
left_rotate_unchecked(h, current, fuel) ==
    Called("left_rotate", h, current,
    IF fuel = 0 THEN Raise(h, "RecursionError")
    ELSE IF current = Null \/ h[current].right = Null
         THEN Raise(h, "AttributeError")
    ELSE LET child == h[current].right
             center == h[child].left
             h1 == [h EXCEPT ![child].left = current, ![current].right = center]
             h2 == SetHeight(h1, current)
             h3 == SetHeight(h2, child)
             h4 == SetSize(h3, child)
             h5 == SetSize(h4, current)
         IN rebalance(h5, child, fuel - 1))

left_rotate(h, current, fuel) ==
    Called("left_rotate", h, current,
    IF fuel = 0 THEN Raise(h, "RecursionError")
    ELSE IF current = Null \/ h[current].right = Null THEN Raise(h, "ValueError")
    ELSE LET child == h[current].right
             center == h[child].left
             h1 == [h EXCEPT ![child].left = current, ![current].right = center]
             h2 == SetHeight(h1, current)
             h3 == SetHeight(h2, child)
             h4 == SetSize(h3, child)
             h5 == SetSize(h4, current)
         IN rebalance(h5, child, fuel - 1))

right_rotate(h, current, fuel) ==
    Called("right_rotate", h, current,
    IF fuel = 0 THEN Raise(h, "RecursionError")
    ELSE IF current = Null \/ h[current].left = Null THEN Raise(h, "ValueError")
    ELSE LET child == h[current].left
             center == h[child].right
             h1 == [h EXCEPT ![child].right = current, ![current].left = center]
             h2 == SetHeight(h1, child)
             h3 == SetHeight(h2, current)
             h4 == SetSize(h3, child)
             h5 == SetSize(h4, current)
         IN rebalance(h5, child, fuel - 1))

\* A slip in rebalance: a single rotation is made towards the wrong side.
rebalance_mirrored(h, current, fuel) ==
    IF fuel = 0 THEN Raise(h, "RecursionError")
    ELSE
    LET h1 == SetSize(h, current)
    IN IF get_balance(h1, current) >= 2 THEN
          LET child == h1[current].right
          IN IF child = Null THEN Raise(h1, "AttributeError")
             ELSE IF get_height(h1, h1[child].left) > get_height(h1, h1[child].right)
             THEN LET rr == right_rotate(h1, child, fuel - 1)
                  IN IF rr.err # OK THEN rr
                     ELSE After(rr, left_rotate(
                              [rr.h EXCEPT ![current].right = rr.r],
                              current, fuel - 1))
             ELSE right_rotate(h1, current, fuel - 1)
       ELSE IF get_balance(h1, current) <= -2 THEN
          LET child == h1[current].left
          IN IF child = Null THEN Raise(h1, "AttributeError")
             ELSE IF get_height(h1, h1[child].right) > get_height(h1, h1[child].left)
             THEN LET lr == left_rotate(h1, child, fuel - 1)
                  IN IF lr.err # OK THEN lr
                     ELSE After(lr, right_rotate(
                              [lr.h EXCEPT ![current].left = lr.r],
                              current, fuel - 1))
             ELSE left_rotate(h1, current, fuel - 1)
       ELSE Return(h1, current)

\* A slip in rebalance: it rotates as soon as the two heights differ.
rebalance_eager(h, current, fuel) ==
    IF fuel = 0 THEN Raise(h, "RecursionError")
    ELSE
    LET h1 == SetSize(h, current)
    IN IF get_balance(h1, current) >= 1 THEN
          LET child == h1[current].right
          IN IF child = Null THEN Raise(h1, "AttributeError")
             ELSE IF get_height(h1, h1[child].left) > get_height(h1, h1[child].right)
             THEN LET rr == right_rotate(h1, child, fuel - 1)
                  IN IF rr.err # OK THEN rr
                     ELSE After(rr, left_rotate(
                              [rr.h EXCEPT ![current].right = rr.r],
                              current, fuel - 1))
             ELSE left_rotate(h1, current, fuel - 1)
       ELSE IF get_balance(h1, current) <= 0 - 1 THEN
          LET child == h1[current].left
          IN IF child = Null THEN Raise(h1, "AttributeError")
             ELSE IF get_height(h1, h1[child].right) > get_height(h1, h1[child].left)
             THEN LET lr == left_rotate(h1, child, fuel - 1)
                  IN IF lr.err # OK THEN lr
                     ELSE After(lr, right_rotate(
                              [lr.h EXCEPT ![current].left = lr.r],
                              current, fuel - 1))
             ELSE right_rotate(h1, current, fuel - 1)
       ELSE Return(h1, current)

\* A slip in rebalance: the size of current is not recomputed.
rebalance_without_size(h, current, fuel) ==
    IF fuel = 0 THEN Raise(h, "RecursionError")
    ELSE
    LET h1 == h
    IN IF get_balance(h1, current) >= 2 THEN
          LET child == h1[current].right
          IN IF child = Null THEN Raise(h1, "AttributeError")
             ELSE IF get_height(h1, h1[child].left) > get_height(h1, h1[child].right)
             THEN LET rr == right_rotate(h1, child, fuel - 1)
                  IN IF rr.err # OK THEN rr
                     ELSE After(rr, left_rotate(
                              [rr.h EXCEPT ![current].right = rr.r],
                              current, fuel - 1))
             ELSE left_rotate(h1, current, fuel - 1)
       ELSE IF get_balance(h1, current) <= -2 THEN
          LET child == h1[current].left
          IN IF child = Null THEN Raise(h1, "AttributeError")
             ELSE IF get_height(h1, h1[child].right) > get_height(h1, h1[child].left)
             THEN LET lr == left_rotate(h1, child, fuel - 1)
                  IN IF lr.err # OK THEN lr
                     ELSE After(lr, right_rotate(
                              [lr.h EXCEPT ![current].left = lr.r],
                              current, fuel - 1))
             ELSE right_rotate(h1, current, fuel - 1)
       ELSE Return(h1, current)

\* A slip in rebalance: it rotates only when the heights differ by 3.
rebalance_late(h, current, fuel) ==
    IF fuel = 0 THEN Raise(h, "RecursionError")
    ELSE
    LET h1 == SetSize(h, current)
    IN IF get_balance(h1, current) >= 3 THEN
          LET child == h1[current].right
          IN IF child = Null THEN Raise(h1, "AttributeError")
             ELSE IF get_height(h1, h1[child].left) > get_height(h1, h1[child].right)
             THEN LET rr == right_rotate(h1, child, fuel - 1)
                  IN IF rr.err # OK THEN rr
                     ELSE After(rr, left_rotate(
                              [rr.h EXCEPT ![current].right = rr.r],
                              current, fuel - 1))
             ELSE left_rotate(h1, current, fuel - 1)
       ELSE IF get_balance(h1, current) <= 0 - 3 THEN
          LET child == h1[current].left
          IN IF child = Null THEN Raise(h1, "AttributeError")
             ELSE IF get_height(h1, h1[child].right) > get_height(h1, h1[child].left)
             THEN LET lr == left_rotate(h1, child, fuel - 1)
                  IN IF lr.err # OK THEN lr
                     ELSE After(lr, right_rotate(
                              [lr.h EXCEPT ![current].left = lr.r],
                              current, fuel - 1))
             ELSE right_rotate(h1, current, fuel - 1)
       ELSE Return(h1, current)

rebalance(h, current, fuel) ==
    IF fuel = 0 THEN Raise(h, "RecursionError")
    ELSE
    LET h1 == SetSize(h, current)
    IN IF get_balance(h1, current) >= 2 THEN
          LET child == h1[current].right
          IN IF child = Null THEN Raise(h1, "AttributeError")
             ELSE IF get_height(h1, h1[child].left) > get_height(h1, h1[child].right)
             THEN LET rr == right_rotate(h1, child, fuel - 1)
                  IN IF rr.err # OK THEN rr
                     ELSE After(rr, left_rotate(
                              [rr.h EXCEPT ![current].right = rr.r],
                              current, fuel - 1))
             ELSE left_rotate(h1, current, fuel - 1)
       ELSE IF get_balance(h1, current) <= -2 THEN
          LET child == h1[current].left
          IN IF child = Null THEN Raise(h1, "AttributeError")
             ELSE IF get_height(h1, h1[child].right) > get_height(h1, h1[child].left)
             THEN LET lr == left_rotate(h1, child, fuel - 1)
                  IN IF lr.err # OK THEN lr
                     ELSE After(lr, right_rotate(
                              [lr.h EXCEPT ![current].left = lr.r],
                              current, fuel - 1))
             ELSE right_rotate(h1, current, fuel - 1)
       ELSE Return(h1, current)

\* Results of the recursive insert and delete also carry self.length.
WithLen(x, len) ==
    [h |-> x.h, r |-> x.r, err |-> x.err, rot |-> x.rot, len |-> len]

\* insert_aux, lines 104-111: the unwind step at current.
insert_unwind(h, len, current) ==
    WithLen(rebalance(SetSize(SetHeight(h, current), current), current,
                      MaxRecursion), len)

\* A slip in insert_aux: an equal key has its item replaced, as in a dict.
RECURSIVE insert_aux_overwrite(_, _, _, _, _)
insert_aux_overwrite(h, len, current, key, item) ==
    IF current = Null THEN
        LET n == Fresh(h)
        IN insert_unwind(Alloc(h, n, AVLTreeNode(key, item)), len + 1, n)
    ELSE IF key > h[current].key THEN
        LET sub == insert_aux_overwrite(h, len, h[current].right, key, item)
        IN IF sub.err # OK THEN sub
           ELSE After(sub, insert_unwind(
                    [sub.h EXCEPT ![current].right = sub.r],
                    sub.len, current))
    ELSE IF key < h[current].key THEN
        LET sub == insert_aux_overwrite(h, len, h[current].left, key, item)
        IN IF sub.err # OK THEN sub
           ELSE After(sub, insert_unwind(
                    [sub.h EXCEPT ![current].left = sub.r],
                    sub.len, current))
    ELSE insert_unwind([h EXCEPT ![current].item = item], len, current)

RECURSIVE insert_aux(_, _, _, _, _)
insert_aux(h, len, current, key, item) ==
    IF current = Null THEN
        LET n == Fresh(h)
        IN insert_unwind(Alloc(h, n, AVLTreeNode(key, item)), len + 1, n)
    ELSE IF key > h[current].key THEN
        LET sub == insert_aux(h, len, h[current].right, key, item)
        IN IF sub.err # OK THEN sub
           ELSE After(sub, insert_unwind(
                    [sub.h EXCEPT ![current].right = sub.r],
                    sub.len, current))
    ELSE IF key < h[current].key THEN
        LET sub == insert_aux(h, len, h[current].left, key, item)
        IN IF sub.err # OK THEN sub
           ELSE After(sub, insert_unwind(
                    [sub.h EXCEPT ![current].left = sub.r],
                    sub.len, current))
    ELSE WithLen(Raise(h, "ValueError"), len)

\* delete_aux, lines 156-160: the unwind step at current.
delete_unwind(h, len, current) ==
    WithLen(rebalance(SetHeight(h, current), current, MaxRecursion), len)

\* A slip in delete_aux: an absent key is passed over without an error.
RECURSIVE delete_aux_silent(_, _, _, _)
delete_aux_silent(h, len, current, key) ==
    IF current = Null THEN WithLen(Return(h, Null), len)
    ELSE IF key < h[current].key THEN
        LET sub == delete_aux_silent(h, len, h[current].left, key)
        IN IF sub.err # OK THEN sub
           ELSE After(sub, delete_unwind(
                    [sub.h EXCEPT ![current].left = sub.r],
                    sub.len, current))
    ELSE IF key > h[current].key THEN
        LET sub == delete_aux_silent(h, len, h[current].right, key)
        IN IF sub.err # OK THEN sub
           ELSE After(sub, delete_unwind(
                    [sub.h EXCEPT ![current].right = sub.r],
                    sub.len, current))
    ELSE IF is_leaf(h, current) THEN WithLen(Return(h, Null), len - 1)
    ELSE IF h[current].left = Null
         THEN WithLen(Return(h, h[current].right), len - 1)
    ELSE IF h[current].right = Null
         THEN WithLen(Return(h, h[current].left), len - 1)
    ELSE LET succ == get_successor(h, current)
             h1 == [h EXCEPT ![current].key = h[succ].key,
                             ![current].item = h[succ].item]
             sub == delete_aux_silent(h1, len, h1[current].right, h[succ].key)
         IN IF sub.err # OK THEN sub
            ELSE After(sub, delete_unwind(
                    SetSize([sub.h EXCEPT ![current].right = sub.r], current),
                    sub.len, current))

\* A slip in delete_aux: removing a leaf does not count down self.length.
RECURSIVE delete_aux_keeps_length(_, _, _, _)
delete_aux_keeps_length(h, len, current, key) ==
    IF current = Null THEN WithLen(Raise(h, "ValueError"), len)
    ELSE IF key < h[current].key THEN
        LET sub == delete_aux_keeps_length(h, len, h[current].left, key)
        IN IF sub.err # OK THEN sub
           ELSE After(sub, delete_unwind(
                    [sub.h EXCEPT ![current].left = sub.r],
                    sub.len, current))
    ELSE IF key > h[current].key THEN
        LET sub == delete_aux_keeps_length(h, len, h[current].right, key)
        IN IF sub.err # OK THEN sub
           ELSE After(sub, delete_unwind(
                    [sub.h EXCEPT ![current].right = sub.r],
                    sub.len, current))
    ELSE IF is_leaf(h, current) THEN WithLen(Return(h, Null), len)
    ELSE IF h[current].left = Null
         THEN WithLen(Return(h, h[current].right), len - 1)
    ELSE IF h[current].right = Null
         THEN WithLen(Return(h, h[current].left), len - 1)
    ELSE LET succ == get_successor(h, current)
             h1 == [h EXCEPT ![current].key = h[succ].key,
                             ![current].item = h[succ].item]
             sub == delete_aux_keeps_length(h1, len, h1[current].right,
                                            h[succ].key)
         IN IF sub.err # OK THEN sub
            ELSE After(sub, delete_unwind(
                    SetSize([sub.h EXCEPT ![current].right = sub.r], current),
                    sub.len, current))

\* A slip in delete_aux: a node with two children is itself unlinked, its
\* left subtree hung under its successor, instead of being overwritten.
RECURSIVE delete_aux_unlinks_node(_, _, _, _)
delete_aux_unlinks_node(h, len, current, key) ==
    IF current = Null THEN WithLen(Raise(h, "ValueError"), len)
    ELSE IF key < h[current].key THEN
        LET sub == delete_aux_unlinks_node(h, len, h[current].left, key)
        IN IF sub.err # OK THEN sub
           ELSE After(sub, delete_unwind(
                    [sub.h EXCEPT ![current].left = sub.r],
                    sub.len, current))
    ELSE IF key > h[current].key THEN
        LET sub == delete_aux_unlinks_node(h, len, h[current].right, key)
        IN IF sub.err # OK THEN sub
           ELSE After(sub, delete_unwind(
                    [sub.h EXCEPT ![current].right = sub.r],
                    sub.len, current))
    ELSE IF is_leaf(h, current) THEN WithLen(Return(h, Null), len - 1)
    ELSE IF h[current].left = Null
         THEN WithLen(Return(h, h[current].right), len - 1)
    ELSE IF h[current].right = Null
         THEN WithLen(Return(h, h[current].left), len - 1)
    ELSE LET succ == get_successor(h, current)
             h1 == [h EXCEPT ![succ].left = h[current].left]
         IN WithLen(Return(h1, h[current].right), len - 1)

RECURSIVE delete_aux(_, _, _, _)
delete_aux(h, len, current, key) ==
    IF current = Null THEN WithLen(Raise(h, "ValueError"), len)
    ELSE IF key < h[current].key THEN
        LET sub == delete_aux(h, len, h[current].left, key)
        IN IF sub.err # OK THEN sub
           ELSE After(sub, delete_unwind(
                    [sub.h EXCEPT ![current].left = sub.r],
                    sub.len, current))
    ELSE IF key > h[current].key THEN
        LET sub == delete_aux(h, len, h[current].right, key)
        IN IF sub.err # OK THEN sub
           ELSE After(sub, delete_unwind(
                    [sub.h EXCEPT ![current].right = sub.r],
                    sub.len, current))
    ELSE IF is_leaf(h, current) THEN WithLen(Return(h, Null), len - 1)
    ELSE IF h[current].left = Null
         THEN WithLen(Return(h, h[current].right), len - 1)
    ELSE IF h[current].right = Null
         THEN WithLen(Return(h, h[current].left), len - 1)
    ELSE LET succ == get_successor(h, current)
             h1 == [h EXCEPT ![current].key = h[succ].key,
                             ![current].item = h[succ].item]
             sub == delete_aux(h1, len, h1[current].right, h[succ].key)
         IN IF sub.err # OK THEN sub
            ELSE After(sub, delete_unwind(
                    SetSize([sub.h EXCEPT ![current].right = sub.r], current),
                    sub.len, current))

\* ------------------------------------------ bst.py: the unbalanced tree
\* A new node object of the base tree: TreeNode(key, item).
TreeNode(key, item) ==
    [key |-> key, item |-> item, left |-> Null, right |-> Null]

\* BinarySearchTree.insert_aux
RECURSIVE bst_insert_aux(_, _, _, _, _)
bst_insert_aux(h, len, current, key, item) ==
    IF current = Null THEN
        LET n == Fresh(h)
        IN WithLen(Return(Alloc(h, n, TreeNode(key, item)), n), len + 1)
    ELSE IF key < h[current].key THEN
        LET sub == bst_insert_aux(h, len, h[current].left, key, item)
        IN IF sub.err # OK THEN sub
           ELSE WithLen(Return([sub.h EXCEPT ![current].left = sub.r],
                               current), sub.len)
    ELSE IF key > h[current].key THEN
        LET sub == bst_insert_aux(h, len, h[current].right, key, item)
        IN IF sub.err # OK THEN sub
           ELSE WithLen(Return([sub.h EXCEPT ![current].right = sub.r],
                               current), sub.len)
    ELSE WithLen(Raise(h, "ValueError"), len)

\* A slip in delete_aux: for a node with one child the absent child is
\* returned instead of the child there is.
RECURSIVE bst_delete_aux_wrong_child(_, _, _, _)
bst_delete_aux_wrong_child(h, len, current, key) ==
    IF current = Null THEN WithLen(Raise(h, "ValueError"), len)
    ELSE IF key < h[current].key THEN
        LET sub == bst_delete_aux_wrong_child(h, len, h[current].left, key)
        IN IF sub.err # OK THEN sub
           ELSE WithLen(Return([sub.h EXCEPT ![current].left = sub.r],
                               current), sub.len)
    ELSE IF key > h[current].key THEN
        LET sub == bst_delete_aux_wrong_child(h, len, h[current].right, key)
        IN IF sub.err # OK THEN sub
           ELSE WithLen(Return([sub.h EXCEPT ![current].right = sub.r],
                               current), sub.len)
    ELSE IF is_leaf(h, current) THEN WithLen(Return(h, Null), len - 1)
    ELSE IF h[current].left = Null
         THEN WithLen(Return(h, h[current].left), len - 1)
    ELSE IF h[current].right = Null
         THEN WithLen(Return(h, h[current].right), len - 1)
    ELSE LET succ == get_successor(h, current)
             h1 == [h EXCEPT ![current].key = h[succ].key,
                             ![current].item = h[succ].item]
             sub == bst_delete_aux_wrong_child(h1, len, h1[current].right,
                                               h[succ].key)
         IN IF sub.err # OK THEN sub
            ELSE WithLen(Return([sub.h EXCEPT ![current].right = sub.r],
                                current), sub.len)

\* BinarySearchTree.delete_aux
RECURSIVE bst_delete_aux(_, _, _, _)
bst_delete_aux(h, len, current, key) ==
    IF current = Null THEN WithLen(Raise(h, "ValueError"), len)
    ELSE IF key < h[current].key THEN
        LET sub == bst_delete_aux(h, len, h[current].left, key)
        IN IF sub.err # OK THEN sub
           ELSE WithLen(Return([sub.h EXCEPT ![current].left = sub.r],
                               current), sub.len)
    ELSE IF key > h[current].key THEN
        LET sub == bst_delete_aux(h, len, h[current].right, key)
        IN IF sub.err # OK THEN sub
           ELSE WithLen(Return([sub.h EXCEPT ![current].right = sub.r],
                               current), sub.len)
    ELSE IF is_leaf(h, current) THEN WithLen(Return(h, Null), len - 1)
    ELSE IF h[current].left = Null
         THEN WithLen(Return(h, h[current].right), len - 1)
    ELSE IF h[current].right = Null
         THEN WithLen(Return(h, h[current].left), len - 1)
    ELSE LET succ == get_successor(h, current)
             h1 == [h EXCEPT ![current].key = h[succ].key,
                             ![current].item = h[succ].item]
             sub == bst_delete_aux(h1, len, h1[current].right, h[succ].key)
         IN IF sub.err # OK THEN sub
            ELSE WithLen(Return([sub.h EXCEPT ![current].right = sub.r],
                                current), sub.len)

\* ------------------------------------------------------ object identities
\* The code never reads the identity of a node object: it only follows
\* references.  Two heaps that differ by a renaming of the identities are
\* the same program state, and objects no reference leads to are gone.
\* After every public call the heap is therefore kept in one form: the
\* objects the root leads to, renamed 1, 2, ... in the order in which a
\* pre-order walk from the root meets them.
\* Canonical(h, n, base): the objects of the subtree of n, in pre-order,
\* renamed base, base + 1, ...
RECURSIVE Canonical(_, _, _)
Canonical(h, n, base) ==
    IF n = Null THEN <<>>
    ELSE LET L == Canonical(h, h[n].left, base + 1)
             R == Canonical(h, h[n].right, base + 1 + Len(L))
         IN <<[h[n] EXCEPT
                 !.left = IF h[n].left = Null THEN Null ELSE base + 1,
                 !.right = IF h[n].right = Null THEN Null
                           ELSE base + 1 + Len(L)]>> \o L \o R

\* The heap and the root reference a call leaves, in that form.
Renamed(h, rt) == Canonical(h, rt, 1)
NewName(rt) == IF rt = Null THEN Null ELSE 1

\* ------------------------------------------------------- bst.py, reading
RECURSIVE get_tree_node_by_key_aux(_, _, _)
get_tree_node_by_key_aux(h, current, key) ==
    IF current = Null THEN Raise(h, "KeyError")
    ELSE IF key = h[current].key THEN Return(h, current)
    ELSE IF key < h[current].key
         THEN get_tree_node_by_key_aux(h, h[current].left, key)
         ELSE get_tree_node_by_key_aux(h, h[current].right, key)

\* __getitem__: the item of the node found, or the KeyError.
getitem(h, rt, key) ==
    LET f == get_tree_node_by_key_aux(h, rt, key)
    IN [err |-> f.err, v |-> IF f.err = OK THEN h[f.r].item ELSE 0]

\* __contains__: try self[key]; except KeyError: False; else True.
contains(h, rt, key) ==
    LET g == getitem(h, rt, key)
    IN IF g.err = "KeyError" THEN [err |-> OK, v |-> FALSE]
       ELSE IF g.err = OK THEN [err |-> OK, v |-> TRUE]
       ELSE [err |-> g.err, v |-> FALSE]

\* ---------------------------------------------- bst.py, BSTInOrderIterator
\* LinkedStack: last in, first out.  The top is the last element.
Push(stack, x) == Append(stack, x)
Top(stack) == stack[Len(stack)]
Pop(stack) == SubSeq(stack, 1, Len(stack) - 1)

\* No iterator in this slot.
NoIter == [live |-> FALSE, stack |-> <<>>, current |-> Null,
           out |-> <<>>, done |-> FALSE]

\* A slip in BSTInOrderIterator: the stack is an attribute of the class, so
\* a new iterator starts on the stack the iterator of slot 1 has left.
NewIter_shared_stack(rt) ==
    [live |-> TRUE, stack |-> iters[1].stack, current |-> rt,
     out |-> <<>>, done |-> FALSE]

\* BSTInOrderIterator(root).  out (history) is what it has yielded; done
\* says that the last __next__ raised StopIteration.
NewIter(rt) == [live |-> TRUE, stack |-> <<>>, current |-> rt,
                out |-> <<>>, done |-> FALSE]

\* while self.current: self.stack.push(self.current); self.current = self.current.left
RECURSIVE PushLeft(_, _)
PushLeft(h, it) ==
    IF it.current # Null
    THEN PushLeft(h, [it EXCEPT !.stack = Push(it.stack, it.current),
                                !.current = h[it.current].left])
    ELSE it

\* A slip in __next__: self.current is not moved to result.right.
iter_next_no_right(h, it) ==
    LET d == PushLeft(h, it)
    IN IF d.stack = <<>> THEN [d EXCEPT !.done = TRUE]
       ELSE LET result == Top(d.stack)
            IN [d EXCEPT !.stack = Pop(d.stack),
                         !.current = Null,
                         !.out = Append(d.out, h[result].key),
                         !.done = FALSE]

\* BSTInOrderIterator.__next__
iter_next(h, it) ==
    LET d == PushLeft(h, it)
    IN IF d.stack = <<>> THEN [d EXCEPT !.done = TRUE]
       ELSE LET result == Top(d.stack)
            IN [d EXCEPT !.stack = Pop(d.stack),
                         !.current = h[result].right,
                         !.out = Append(d.out, h[result].key),
                         !.done = FALSE]

\* ------------------------------------------------------- avl.py, reading
\* A slip in lookup: the node itself is not counted on the way right.
RECURSIVE lookup_miscounted(_, _, _)
lookup_miscounted(h, node, index) ==
    IF node = Null THEN Raise(h, "AttributeError")
    ELSE LET s == size(h, h[node].left)
         IN IF index = s.v THEN Return(s.h, node)
            ELSE IF index < s.v THEN lookup_miscounted(s.h, s.h[node].left, index)
            ELSE lookup_miscounted(s.h, s.h[node].right, index - s.v)

RECURSIVE lookup(_, _, _)
lookup(h, node, index) ==
    IF node = Null THEN Raise(h, "AttributeError")
    ELSE LET s == size(h, h[node].left)
         IN IF index = s.v THEN Return(s.h, node)
            ELSE IF index < s.v THEN lookup(s.h, s.h[node].left, index)
            ELSE lookup(s.h, s.h[node].right, index - s.v - 1)

RECURSIVE range_aux(_, _, _, _, _, _)
range_aux(h, rt, current, i, j, acc) ==
    IF current = Null \/ i > j THEN [h |-> h, v |-> acc, err |-> OK]
    ELSE LET node == lookup(h, rt, i)
         IN IF node.err # OK THEN [h |-> node.h, v |-> <<>>, err |-> node.err]
            ELSE range_aux(node.h, rt, rt, i + 1, j,
                           Append(acc, node.h[node.r].item))

\* A slip in range_between: the upper index is taken as exclusive.
range_between_exclusive(h, rt, i, j) ==
    LET N == size(h, rt)
    IN IF ~(i >= 0 /\ i <= N.v + 1 /\ j >= 0 /\ j <= N.v + 1 /\ j >= i)
       THEN [h |-> N.h, v |-> <<>>, err |-> "ValueError"]
       ELSE range_aux(N.h, rt, rt, i, j - 1, <<>>)

range_between(h, rt, i, j) ==
    LET N == size(h, rt)
    IN IF ~(i >= 0 /\ i <= N.v + 1 /\ j >= 0 /\ j <= N.v + 1 /\ j >= i)
       THEN [h |-> N.h, v |-> <<>>, err |-> "ValueError"]
       ELSE range_aux(N.h, rt, rt, i, j, <<>>)

\* ------------------------------------------------------------- primes.py
\* is_prime(n): 2 is prime; numbers below 2 and even numbers are not; an odd
\* n is prime when no odd i of 3..int(sqrt(n)) divides it.
is_prime(n) ==
    IF n = 2 THEN TRUE
    ELSE IF n < 2 \/ n % 2 = 0 THEN FALSE
    ELSE ~ \E i \in 3..n : i % 2 = 1 /\ i * i <= n /\ n % i = 0

\* LargestPrimeIterator(upper_bound, factor)
LargestPrimeIterator(upper_bound, factor) ==
    IF upper_bound < 3
    THEN [it |-> Absent, err |-> "ValueError"]
    ELSE [it |-> [upper_bound |-> upper_bound, factor |-> factor],
          err |-> OK]

\* The loop of __next__: current -= 1 until is_prime(current).  Below 2 no
\* number is prime, so a loop that gets there never ends: Null stands for
\* that.
RECURSIVE FirstPrimeDown(_)
FirstPrimeDown(current) ==
    IF current < 2 THEN Null
    ELSE IF is_prime(current) THEN current
    ELSE FirstPrimeDown(current - 1)

\* A slip in __next__: the search starts at the upper bound itself.
primes_next_inclusive(it) ==
    LET current == FirstPrimeDown(it.upper_bound)
    IN IF current = Null THEN [it |-> it, v |-> Null, err |-> "NoReturn"]
       ELSE [it |-> [it EXCEPT !.upper_bound = current * it.factor],
             v |-> current, err |-> OK]

\* LargestPrimeIterator.__next__
primes_next(it) ==
    LET current == FirstPrimeDown(it.upper_bound - 1)
    IN IF current = Null THEN [it |-> it, v |-> Null, err |-> "NoReturn"]
       ELSE [it |-> [it EXCEPT !.upper_bound = current * it.factor],
             v |-> current, err |-> OK]

\* --------------------------------------------------------- hash_table.py
\* A key is a string: the sequence of the code points of its characters
\* (ord(char)).  A slot of the table holds None (NoEntry) or (key, data).
NoEntry == <<>>

\* ArrayR(n): an array of n references, all None; the slot of index x is
\* element x + 1.
ArrayR(n) == [x \in 1..n |-> NoEntry]

\* LinearProbeTable.hash, the loop over the characters from position x on.
RECURSIVE hash_chars(_, _, _, _, _)
hash_chars(key, x, value, a, tablesize) ==
    IF x > Len(key) THEN value
    ELSE hash_chars(key, x + 1,
                    (key[x] + a * value) % tablesize,
                    (a * 31) % (tablesize - 1),
                    tablesize)

hash(t, key) == hash_chars(key, 1, 0, 31415, t.tablesize)

is_full(t) == t.count = Len(t.table)

\* The loops `while expected_size > prime` of __init__ and
\* `while prime < potential_new_size` of _rehash: next(primes) until the
\* prime is at least `least`.
RECURSIVE prime_loop(_, _, _)
prime_loop(it, prime, least) ==
    IF prime >= least THEN [it |-> it, prime |-> prime, err |-> OK]
    ELSE LET n == primes_next(it)
         IN IF n.err # OK THEN [it |-> it, prime |-> prime, err |-> n.err]
            ELSE prime_loop(n.it, n.v, least)

\* LinearProbeTable.__init__
LinearProbeTable(expected_size, tablesize_override) ==
    LET made == LargestPrimeIterator(expected_size, 2)
    IN IF made.err # OK THEN [t |-> Absent, err |-> made.err]
       ELSE
       LET loop == IF tablesize_override # 0 - 1
                   THEN [it |-> made.it, prime |-> tablesize_override,
                         err |-> OK]
                   ELSE prime_loop(made.it, 2, expected_size)
       IN IF loop.err # OK THEN [t |-> Absent, err |-> loop.err]
          ELSE IF loop.prime <= 0 THEN [t |-> Absent, err |-> "ValueError"]
          ELSE [t |-> [count |-> 0,
                       primes |-> loop.it,
                       tablesize |-> loop.prime,
                       table |-> ArrayR(loop.prime),
                       rehash_count |-> 0,
                       conflict_count |-> 0,
                       probe_total |-> 0,
                       probe_max |-> 0],
                err |-> OK]

RECURSIVE probe(_, _, _, _, _, _)

\* A slip in _linear_probe: a step to the next slot is not added to
\* probe_total.
probe_uncounted(t, key, is_insert, position, probe_chain, left) ==
    IF left = 0 THEN [t |-> t, position |-> position, err |-> "KeyError"]
    ELSE IF t.table[position + 1] = NoEntry THEN
        IF is_insert
        THEN LET t1 == IF probe_chain > t.probe_max
                       THEN [t EXCEPT !.probe_max = probe_chain] ELSE t
                 t2 == IF probe_chain # 0
                       THEN [t1 EXCEPT !.conflict_count = @ + 1] ELSE t1
             IN [t |-> t2, position |-> position, err |-> OK]
        ELSE [t |-> t, position |-> position, err |-> "KeyError"]
    ELSE IF t.table[position + 1][1] = key
    THEN [t |-> t, position |-> position, err |-> OK]
    ELSE probe(t, key, is_insert,
               (position + 1) % Len(t.table), probe_chain + 1, left - 1)

\* _linear_probe, the for loop: `left` iterations are left.
probe(t, key, is_insert, position, probe_chain, left) ==
    IF left = 0 THEN [t |-> t, position |-> position, err |-> "KeyError"]
    ELSE IF t.table[position + 1] = NoEntry THEN
        IF is_insert
        THEN LET t1 == IF probe_chain > t.probe_max
                       THEN [t EXCEPT !.probe_max = probe_chain] ELSE t
                 t2 == IF probe_chain # 0
                       THEN [t1 EXCEPT !.conflict_count = @ + 1] ELSE t1
             IN [t |-> t2, position |-> position, err |-> OK]
        ELSE [t |-> t, position |-> position, err |-> "KeyError"]
    ELSE IF t.table[position + 1][1] = key
    THEN [t |-> t, position |-> position, err |-> OK]
    ELSE probe([t EXCEPT !.probe_total = @ + 1], key, is_insert,
               (position + 1) % Len(t.table), probe_chain + 1, left - 1)

\* A slip in _linear_probe: the probe stops at the end of the table
\* instead of going on from slot 0.
linear_probe_no_wrap(t, key, is_insert) ==
    IF is_insert /\ is_full(t)
    THEN [t |-> t, position |-> 0, err |-> "KeyError"]
    ELSE probe(t, key, is_insert, hash(t, key), 0,
               Len(t.table) - hash(t, key))

\* LinearProbeTable._linear_probe
linear_probe(t, key, is_insert) ==
    IF is_insert /\ is_full(t)
    THEN [t |-> t, position |-> 0, err |-> "KeyError"]
    ELSE probe(t, key, is_insert, hash(t, key), 0, Len(t.table))

Filled(t) == SelectSeq(t.table, LAMBDA e : e # NoEntry)

\* LinearProbeTable.keys / values: in slot order.
keys(t) == [x \in 1..Len(Filled(t)) |-> Filled(t)[x][1]]

values(t) == [x \in 1..Len(Filled(t)) |-> Filled(t)[x][2]]

\* LinearProbeTable.__getitem__
lpt_getitem(t, key) ==
    LET p == linear_probe(t, key, FALSE)
    IN IF p.err # OK THEN [t |-> p.t, v |-> <<>>, err |-> p.err]
       ELSE [t |-> p.t, v |-> <<p.t.table[p.position + 1][2]>>, err |-> OK]

\* LinearProbeTable.__contains__
lpt_contains(t, key) ==
    LET g == lpt_getitem(t, key)
    IN IF g.err = "KeyError" THEN [t |-> g.t, v |-> <<FALSE>>, err |-> OK]
       ELSE IF g.err # OK THEN g
       ELSE [t |-> g.t, v |-> <<TRUE>>, err |-> OK]

RECURSIVE lpt_setitem(_, _, _)
RECURSIVE rehash(_)
RECURSIVE reinsert(_, _, _, _)

\* LinearProbeTable.insert
lpt_insert(t, key, data) == lpt_setitem(t, key, data)

\* _rehash, the loop that reinserts: pairs x, x + 1, ... are left.
reinsert(t, ks, vs, x) ==
    IF x > Len(ks) THEN [t |-> t, err |-> OK]
    ELSE LET r == lpt_insert(t, ks[x], vs[x])
         IN IF r.err # OK THEN r ELSE reinsert(r.t, ks, vs, x + 1)

\* LinearProbeTable._rehash
rehash(t) ==
    LET potential_new_size == t.tablesize * 2
        made == LargestPrimeIterator(potential_new_size, 2)
    IN IF made.err # OK THEN [t |-> t, err |-> made.err]
       ELSE LET loop == prime_loop(made.it, 0, potential_new_size)
            IN IF loop.err # OK THEN [t |-> t, err |-> loop.err]
               ELSE reinsert([t EXCEPT !.table = ArrayR(loop.prime),
                                       !.tablesize = loop.prime,
                                       !.count = 0],
                             keys(t), values(t), 1)

\* A slip in __setitem__: the table is rehashed as soon as it is half full.
lpt_setitem_half(t, key, data) ==
    LET r == IF 2 * t.count >= t.tablesize
             THEN LET h == rehash(t)
                  IN IF h.err # OK THEN h
                     ELSE [t |-> [h.t EXCEPT !.rehash_count = @ + 1],
                           err |-> OK]
             ELSE [t |-> t, err |-> OK]
    IN IF r.err # OK THEN r
       ELSE LET p == linear_probe(r.t, key, TRUE)
            IN IF p.err # OK THEN [t |-> p.t, err |-> p.err]
               ELSE LET t1 == IF p.t.table[p.position + 1] = NoEntry
                              THEN [p.t EXCEPT !.count = @ + 1]
                              ELSE p.t
                    IN [t |-> [t1 EXCEPT !.table[p.position + 1] =
                                             <<key, data>>],
                        err |-> OK]

\* LinearProbeTable.__setitem__
lpt_setitem(t, key, data) ==
    LET r == IF 2 * t.count > t.tablesize
             THEN LET h == rehash(t)
                  IN IF h.err # OK THEN h
                     ELSE [t |-> [h.t EXCEPT !.rehash_count = @ + 1],
                           err |-> OK]
             ELSE [t |-> t, err |-> OK]
    IN IF r.err # OK THEN r
       ELSE LET p == linear_probe(r.t, key, TRUE)
            IN IF p.err # OK THEN [t |-> p.t, err |-> p.err]
               ELSE LET t1 == IF p.t.table[p.position + 1] = NoEntry
                              THEN [p.t EXCEPT !.count = @ + 1]
                              ELSE p.t
                    IN [t |-> [t1 EXCEPT !.table[p.position + 1] =
                                             <<key, data>>],
                        err |-> OK]

\* ------------------------------------------- the reference procedure
\* The rebalancing procedure as the specification words it, on trees as
\* values: <<>> is the empty tree, <<key, left, right>> a node.  Heights are
\* those of the tree itself, a rotation returns the promoted child and
\* nothing more, and rebalancing is applied once per ancestor on the unwind.
RECURSIVE RefHeight(_)
RefHeight(t) ==
    IF t = <<>> THEN 0 ELSE 1 + Max(RefHeight(t[2]), RefHeight(t[3]))

RefRotateLeft(t) == <<t[3][1], <<t[1], t[2], t[3][2]>>, t[3][3]>>

RefRotateRight(t) == <<t[2][1], t[2][2], <<t[1], t[2][3], t[3]>>>>

RefRebalance(t) ==
    LET balance == RefHeight(t[3]) - RefHeight(t[2])
    IN IF balance >= 2
       THEN IF RefHeight(t[3][2]) > RefHeight(t[3][3])
            THEN RefRotateLeft(<<t[1], t[2], RefRotateRight(t[3])>>)
            ELSE RefRotateLeft(t)
       ELSE IF balance <= 0 - 2
       THEN IF RefHeight(t[2][3]) > RefHeight(t[2][2])
            THEN RefRotateRight(<<t[1], RefRotateLeft(t[2]), t[3]>>)
            ELSE RefRotateRight(t)
       ELSE t

RECURSIVE RefInsert(_, _)
RefInsert(t, key) ==
    IF t = <<>> THEN <<key, <<>>, <<>>>>
    ELSE IF key > t[1]
    THEN RefRebalance(<<t[1], t[2], RefInsert(t[3], key)>>)
    ELSE IF key < t[1]
    THEN RefRebalance(<<t[1], RefInsert(t[2], key), t[3]>>)
    ELSE t

RECURSIVE RefMinimal(_)
RefMinimal(t) == IF t[2] = <<>> THEN t[1] ELSE RefMinimal(t[2])

RECURSIVE RefDelete(_, _)
RefDelete(t, key) ==
    IF t = <<>> THEN t
    ELSE IF key < t[1]
    THEN RefRebalance(<<t[1], RefDelete(t[2], key), t[3]>>)
    ELSE IF key > t[1]
    THEN RefRebalance(<<t[1], t[2], RefDelete(t[3], key)>>)
    ELSE IF t[2] = <<>> THEN t[3]
    ELSE IF t[3] = <<>> THEN t[2]
    ELSE LET succ == RefMinimal(t[3])
         IN RefRebalance(<<succ, t[2], RefDelete(t[3], succ)>>)

\* ------------------------------------------------------------- operations
Outcome(op, err, val) == [op |-> op, err |-> err, val |-> val]

Init ==
    /\ heap = <<>>
    /\ root = Null
    /\ length = 0
    /\ res = Outcome("init", OK, <<>>)
    /\ absmap = <<>>
    /\ iters = [s \in 1..NumIters |-> NoIter]
    /\ rots = <<>>
    /\ ref = <<>>
    /\ lpt = Absent
    /\ primes = Absent
    /\ past = Absent

\* An iterator is advanced only while the tree it was created over has not
\* been changed: a caller that changes the tree gives up the iterators it
\* holds, so no reference into the tree outlives a change of the tree.
GivenUp == [s \in 1..NumIters |-> NoIter]

MapPut(m, key, item) == (key :> item) @@ m
MapDrop(m, key) == [k \in DOMAIN m \ {key} |-> m[k]]

\* BinarySearchTree.__setitem__: self.root = self.insert_aux(self.root, key, item)
\* journal says whether the journal of the call is kept in rots.  The call
\* is made once; r is its outcome.
SetitemWith(key, item, journal) ==
    \E r \in {insert_aux(heap, length, root, key, item)} :
    LET newroot == IF r.err = OK THEN r.r ELSE root
    IN /\ root' = NewName(newroot)
       /\ heap' = Renamed(r.h, newroot)
       /\ length' = r.len
       /\ res' = Outcome("set", r.err, <<>>)
       /\ absmap' = IF r.err = OK THEN MapPut(absmap, key, item) ELSE absmap
       /\ iters' = GivenUp
       /\ rots' = IF journal THEN r.rot ELSE <<>>
       /\ ref' = IF journal /\ r.err = OK THEN RefInsert(ref, key) ELSE ref
       /\ UNCHANGED apart

SetitemTo(key, item) == SetitemWith(key, item, FALSE)

Setitem == \E key \in Keys, item \in Items : SetitemTo(key, item)

\* BinarySearchTree.__delitem__: self.root = self.delete_aux(self.root, key)
DelitemWith(key, journal) ==
    \E r \in {delete_aux(heap, length, root, key)} :
    LET newroot == IF r.err = OK THEN r.r ELSE root
    IN /\ root' = NewName(newroot)
       /\ heap' = Renamed(r.h, newroot)
       /\ length' = r.len
       /\ res' = Outcome("del", r.err, <<>>)
       /\ absmap' = IF r.err = OK THEN MapDrop(absmap, key) ELSE absmap
       /\ iters' = GivenUp
       /\ rots' = IF journal THEN r.rot ELSE <<>>
       /\ ref' = IF journal /\ r.err = OK THEN RefDelete(ref, key) ELSE ref
       /\ UNCHANGED apart

DelitemOf(key) == DelitemWith(key, FALSE)

Delitem == \E key \in Keys : DelitemOf(key)

\* BinarySearchTree.__getitem__
GetitemOf(key) ==
    LET g == getitem(heap, root, key)
    IN /\ res' = Outcome("get", g.err, IF g.err = OK THEN <<g.v>> ELSE <<>>)
       /\ UNCHANGED <<heap, root, length, absmap, iters, rots, ref, apart>>

Getitem == \E key \in Keys : GetitemOf(key)

\* BinarySearchTree.__contains__
ContainsOf(key) ==
    /\ res' = LET c == contains(heap, root, key)
              IN Outcome("contains", c.err, IF c.err = OK THEN <<c.v>> ELSE <<>>)
    /\ UNCHANGED <<heap, root, length, absmap, iters, rots, ref, apart>>

Contains == \E key \in Keys : ContainsOf(key)

\* AVLTree.lookup(self.root, index): returns a node.
LookupAt(index) ==
    LET r == lookup(heap, root, index)
    IN /\ heap' = r.h
       /\ res' = Outcome("lookup", r.err, IF r.err = OK THEN <<r.r>> ELSE <<>>)
       /\ UNCHANGED <<root, length, absmap, iters, rots, ref, apart>>

Lookup == \E index \in Indexes : LookupAt(index)

\* AVLTree.range_between(i, j): returns a list of items.
RangeBetweenOf(i, j) ==
    LET r == range_between(heap, root, i, j)
    IN /\ heap' = r.h
       /\ res' = Outcome("range", r.err, r.v)
       /\ UNCHANGED <<root, length, absmap, iters, rots, ref, apart>>

RangeBetween == \E i \in Indexes, j \in Indexes : RangeBetweenOf(i, j)

Next == Setitem \/ Delitem \/ Getitem \/ Contains \/ Lookup \/ RangeBetween

Spec == Init /\ [][Next]_vars

\* BinarySearchTree.__iter__: a new iterator over the tree, in slot s.
IterNew(s) ==
    /\ iters' = [iters EXCEPT ![s] = NewIter(root)]
    /\ UNCHANGED <<heap, root, length, res, absmap, rots, ref, apart>>

\* next(it) on the iterator in slot s.
IterNext(s) ==
    /\ iters[s].live
    /\ iters' = [iters EXCEPT ![s] = iter_next(heap, iters[s])]
    /\ UNCHANGED <<heap, root, length, res, absmap, rots, ref, apart>>

Iterate == \E s \in 1..NumIters : IterNew(s) \/ IterNext(s)

\* Iteration yields keys: every key is stored with the item 1 here.
SetitemPlain == \E key \in Keys : SetitemTo(key, 1)

NextIter == SetitemPlain \/ Delitem \/ Iterate

SpecIter == Init /\ [][NextIter]_vars

\* The calls that only read: besides those of Next, get_minimal and
\* get_maximal on the root of the tree or another of its nodes,
\* get_successor on a node, and one in-order iterator.
GetMinimalOf(n) ==
    /\ res' = Outcome("get_minimal", OK, <<get_minimal(heap, n)>>)
    /\ UNCHANGED <<heap, root, length, absmap, iters, rots, ref, apart>>

GetMinimal == \E n \in {root} \cup DOMAIN heap : GetMinimalOf(n)

GetMaximalOf(n) ==
    /\ res' = Outcome("get_maximal", OK, <<get_maximal(heap, n)>>)
    /\ UNCHANGED <<heap, root, length, absmap, iters, rots, ref, apart>>

GetMaximal == \E n \in {root} \cup DOMAIN heap : GetMaximalOf(n)

GetSuccessorOf(n) ==
    /\ res' = Outcome("get_successor", OK, <<get_successor(heap, n)>>)
    /\ UNCHANGED <<heap, root, length, absmap, iters, rots, ref, apart>>

GetSuccessor == \E n \in DOMAIN heap : GetSuccessorOf(n)

IterateOne == IterNew(1) \/ IterNext(1)

ReadOnly ==
    \/ Getitem \/ Contains \/ Lookup \/ RangeBetween
    \/ GetMinimal \/ GetMaximal \/ GetSuccessor \/ IterateOne

NextRead == SetitemPlain \/ Delitem \/ ReadOnly

SpecRead == Init /\ [][NextRead]_vars

\* Growth only: keys that have not been inserted are inserted, each with
\* itself as item.
Grow ==
    \E key \in GrowKeys \ DOMAIN absmap : SetitemTo(key, key)

NextGrow == Grow

SpecGrow == Init /\ [][NextGrow]_vars

\* Inserts and deletes whose journal of rotation calls is kept; every key
\* is stored with itself as item.
InsertKept == \E key \in RotKeys : SetitemWith(key, key, TRUE)

DeleteKept == \E key \in RotKeys : DelitemWith(key, TRUE)

NextRot == InsertKept \/ DeleteKept

SpecRot == Init /\ [][NextRot]_vars

\* The references that hold a node of the tree: self.root, written
\* <<Null, "root">>, and the two child fields of every node.
Links ==
    {<<Null, "root">>}
        \cup {<<p, side>> : p \in DOMAIN heap, side \in {"left", "right"}}

Target(link) ==
    IF link[1] = Null THEN root
    ELSE IF link[2] = "left" THEN heap[link[1]].left
    ELSE heap[link[1]].right

\* A direct call of a rotation by a client of the tree, on the node a
\* reference holds (None, if it holds none), the node returned being
\* stored back into that reference: x = tree.left_rotate(x).
RotateAt(op, link) ==
    \E r \in {IF op = "left_rotate"
               THEN left_rotate(heap, Target(link), MaxRecursion)
               ELSE right_rotate(heap, Target(link), MaxRecursion)} :
    LET stored == IF r.err # OK \/ link[1] = Null THEN r.h
                  ELSE IF link[2] = "left"
                       THEN [r.h EXCEPT ![link[1]].left = r.r]
                       ELSE [r.h EXCEPT ![link[1]].right = r.r]
        newroot == IF r.err = OK /\ link[1] = Null THEN r.r ELSE root
    IN /\ root' = NewName(newroot)
       /\ heap' = Renamed(stored, newroot)
       /\ res' = Outcome(op, r.err, <<>>)
       /\ iters' = GivenUp
       /\ rots' = <<>>
       /\ UNCHANGED <<length, absmap, ref, apart>>

RotateLeft == \E link \in Links : RotateAt("left_rotate", link)

RotateRight == \E link \in Links : RotateAt("right_rotate", link)

NextDirect == SetitemPlain \/ Delitem \/ RotateLeft \/ RotateRight

SpecDirect == Init /\ [][NextDirect]_vars

\* -------------------------------------- the unbalanced tree in operation
\* A BinarySearchTree object that is not an AVLTree: __setitem__ and
\* __delitem__ run the insert_aux and delete_aux of bst.py.
BaseSetitemOf(key, item) ==
    \E r \in {bst_insert_aux(heap, length, root, key, item)} :
    LET newroot == IF r.err = OK THEN r.r ELSE root
    IN /\ root' = NewName(newroot)
       /\ heap' = Renamed(r.h, newroot)
       /\ length' = r.len
       /\ res' = Outcome("set", r.err, <<>>)
       /\ absmap' = IF r.err = OK THEN MapPut(absmap, key, item) ELSE absmap
       /\ UNCHANGED <<iters, rots, ref, apart>>

BaseSetitem == \E key \in Keys, item \in Items : BaseSetitemOf(key, item)

BaseDelitemOf(key) ==
    \E r \in {bst_delete_aux(heap, length, root, key)} :
    LET newroot == IF r.err = OK THEN r.r ELSE root
    IN /\ root' = NewName(newroot)
       /\ heap' = Renamed(r.h, newroot)
       /\ length' = r.len
       /\ res' = Outcome("del", r.err, <<>>)
       /\ absmap' = IF r.err = OK THEN MapDrop(absmap, key) ELSE absmap
       /\ UNCHANGED <<iters, rots, ref, apart>>

BaseDelitem == \E key \in Keys : BaseDelitemOf(key)

\* BinarySearchTree.is_empty
BaseIsEmpty ==
    /\ res' = Outcome("is_empty", OK, <<is_empty(root)>>)
    /\ UNCHANGED <<heap, root, length, absmap, iters, rots, ref, apart>>

\* BinarySearchTree.__len__
BaseLen ==
    /\ res' = Outcome("len", OK, <<length>>)
    /\ UNCHANGED <<heap, root, length, absmap, iters, rots, ref, apart>>

NextBase == BaseSetitem \/ BaseDelitem \/ BaseIsEmpty \/ BaseLen

SpecBase == Init /\ [][NextBase]_vars

\* ------------------------------------------------ the table in operation
\* Tables are built the way the repository builds them: without an
\* override (game.py: LinearProbeTable(n), LinearProbeTable(n, -1)) or with
\* the expected size as the table size (LinearProbeTable(amount, amount)).
\* The keys are "a", "b", "e" and "be": "b" and "e" collide in the last
\* slot of a table of size 3.
ExpectedSizes == 2..MaxExpected

TableKeys == {<<97>>, <<98>>, <<101>>, <<98, 101>>}

TableNew(expected_size, tablesize_override) ==
    /\ lpt = Absent
    /\ \E r \in {LinearProbeTable(expected_size, tablesize_override)} :
          /\ lpt' = r.t
          /\ res' = Outcome("LinearProbeTable", r.err, <<>>)
          /\ past' = IF r.err # OK THEN past
                     ELSE [expected_size |-> expected_size,
                           tablesize_override |-> tablesize_override,
                           tablesize |-> r.t.tablesize,
                           map |-> <<>>]
    /\ UNCHANGED <<heap, root, length, absmap, iters, rots, ref, primes>>

Build ==
    \E expected_size \in ExpectedSizes :
        \E tablesize_override \in {0 - 1, expected_size} :
            TableNew(expected_size, tablesize_override)

\* The statistics only grow: calls are made while probe_total is below
\* MaxProbeTotal.
InUse == lpt # Absent /\ lpt.probe_total < MaxProbeTotal

TableSet(op, key, data) ==
    /\ InUse
    /\ \E r \in {IF op = "insert" THEN lpt_insert(lpt, key, data)
                 ELSE lpt_setitem(lpt, key, data)} :
          /\ lpt' = r.t
          /\ res' = Outcome(op, r.err, <<>>)
          /\ past' = IF r.err # OK THEN past
                     ELSE [past EXCEPT !.map = MapPut(@, key, data)]
    /\ UNCHANGED <<heap, root, length, absmap, iters, rots, ref, primes>>

TableSetitem ==
    \E key \in TableKeys, data \in Items : TableSet("setitem", key, data)

TableInsert ==
    \E key \in TableKeys, data \in Items : TableSet("insert", key, data)

TableGetitemOf(key) ==
    /\ InUse
    /\ \E r \in {lpt_getitem(lpt, key)} :
          /\ lpt' = r.t
          /\ res' = Outcome("getitem", r.err, r.v)
    /\ UNCHANGED <<heap, root, length, absmap, iters, rots, ref, primes, past>>

TableGetitem == \E key \in TableKeys : TableGetitemOf(key)

TableContainsOf(key) ==
    /\ InUse
    /\ \E r \in {lpt_contains(lpt, key)} :
          /\ lpt' = r.t
          /\ res' = Outcome("contains", r.err, r.v)
    /\ UNCHANGED <<heap, root, length, absmap, iters, rots, ref, primes, past>>

TableContains == \E key \in TableKeys : TableContainsOf(key)

\* LinearProbeTable.__len__
TableLen ==
    /\ InUse
    /\ res' = Outcome("len", OK, <<lpt.count>>)
    /\ UNCHANGED <<heap, root, length, absmap, iters, rots, ref, apart>>

NextTable ==
    Build \/ TableSetitem \/ TableInsert \/ TableGetitem \/ TableContains
        \/ TableLen

SpecTable == Init /\ [][NextTable]_vars

\* ---------------------------------------------- the iterator in operation
UpperBounds == 2..MaxUpperBound

Factors == 1..MaxFactor

PrimesNew(upper_bound, factor) ==
    /\ primes = Absent
    /\ \E r \in {LargestPrimeIterator(upper_bound, factor)} :
          /\ primes' = r.it
          /\ res' = Outcome("LargestPrimeIterator", r.err, <<>>)
          /\ past' = IF r.err # OK THEN past
                     ELSE [upper_bound |-> upper_bound, factor |-> factor,
                           returned |-> <<>>]
    /\ UNCHANGED <<heap, root, length, absmap, iters, rots, ref, lpt>>

PrimesBuild ==
    \E upper_bound \in UpperBounds, factor \in Factors :
        PrimesNew(upper_bound, factor)

\* next(primes), while the upper bound is at most MaxPrime.
PrimesNext ==
    /\ primes # Absent
    /\ primes.upper_bound <= MaxPrime
    /\ \E r \in {primes_next(primes)} :
          /\ primes' = r.it
          /\ res' = Outcome("next", r.err, <<r.v>>)
          /\ past' = IF r.err # OK THEN past
                     ELSE [past EXCEPT !.returned = Append(@, r.v)]
    /\ UNCHANGED <<heap, root, length, absmap, iters, rots, ref, lpt>>

NextPrimes == PrimesBuild \/ PrimesNext

SpecPrimes == Init /\ [][NextPrimes]_vars

\* ------------------------------------------------- what the tree holds
RECURSIVE Nodes(_, _)
Nodes(h, n) ==
    IF n = Null THEN {}
    ELSE {n} \cup Nodes(h, h[n].left) \cup Nodes(h, h[n].right)

KeysIn(h, n) == {h[m].key : m \in Nodes(h, n)}

\* The longest path from n down, counted in nodes, from the child links.
RECURSIVE Height(_, _)
Height(h, n) ==
    IF n = Null THEN 0
    ELSE 1 + Max(Height(h, h[n].left), Height(h, h[n].right))

CachedSize(h, n) == IF n = Null THEN 0 ELSE h[n].size

Abs(x) == IF x < 0 THEN 0 - x ELSE x

TwoChildren(n) == n # Null /\ heap[n].left # Null /\ heap[n].right # Null

\* ------------------------------------------------------------------ C1
\* C1: after every __setitem__ / __delitem__, failed or not, every node's
\* key is greater than every key of its left subtree and smaller than
\* every key of its right subtree, and no two nodes hold the same key.
C1_BSTOrdering ==
    /\ \A n \in Nodes(heap, root) :
          /\ \A k \in KeysIn(heap, heap[n].left) : k < heap[n].key
          /\ \A k \in KeysIn(heap, heap[n].right) : k > heap[n].key
    /\ \A m, n \in Nodes(heap, root) :
          m # n => heap[m].key # heap[n].key

\* A delete has just removed a key from a full tree and left a root with
\* two children.
C1_Witness ==
    /\ res.op = "del" /\ res.err = OK
    /\ length = MaxKey - 1
    /\ TwoChildren(root)

\* ------------------------------------------------------------------ C2
\* C2: after every __setitem__ / __delitem__, the heights of the left and
\* right subtrees of every node, measured on the child links, differ by
\* at most 1.
C2_Balanced ==
    \A n \in Nodes(heap, root) :
        Abs(Height(heap, heap[n].left) - Height(heap, heap[n].right)) <= 1

\* ------------------------------------------------------------------ C3
\* C3: after every public operation, every node's cached size is 1 + the
\* cached sizes of its children (0 for an absent child), and is the
\* number of nodes of its subtree.
C3_SizeConsistent ==
    \A n \in Nodes(heap, root) :
        /\ heap[n].size = 1 + CachedSize(heap, heap[n].left)
                             + CachedSize(heap, heap[n].right)
        /\ heap[n].size = Cardinality(Nodes(heap, n))

\* A delete from a full tree has returned, and the root has two children.
C3_Witness ==
    /\ res.op = "del" /\ res.err = OK
    /\ TwoChildren(root)
    /\ heap[root].size = MaxKey - 1

\* ------------------------------------------------------------------ C4
\* C4: after every public operation, every node's cached height is 1 + the
\* larger cached height of its children (0 for an absent child), and so
\* is its structural height.
C4_HeightConsistent ==
    \A n \in Nodes(heap, root) :
        /\ heap[n].height = 1 + Max(get_height(heap, heap[n].left),
                                    get_height(heap, heap[n].right))
        /\ heap[n].height = Height(heap, n)

\* ------------------------------------------------------------------ C5
StrictlyAscending(q) == \A a, b \in 1..Len(q) : a < b => q[a] < q[b]
Elements(q) == {q[a] : a \in 1..Len(q)}

\* C5: an in-order iterator yields keys of the tree in strictly ascending
\* order, never more than len(tree) of them, and when it raises
\* StopIteration it has yielded every stored key, len(tree) keys in all.
C5_InOrderIteration ==
    \A s \in 1..NumIters :
        iters[s].live =>
            /\ StrictlyAscending(iters[s].out)
            /\ Elements(iters[s].out) \subseteq KeysIn(heap, root)
            /\ Len(iters[s].out) <= length
            /\ iters[s].done =>
                  /\ Elements(iters[s].out) = KeysIn(heap, root)
                  /\ Len(iters[s].out) = length

\* An iterator over a full tree has raised StopIteration.
C5_Witness ==
    \E s \in 1..NumIters :
        /\ iters[s].live /\ iters[s].done
        /\ length = MaxKey
        /\ Len(iters[s].out) = MaxKey

\* ------------------------------------------------------------------ C6
\* C6: the tree is the key -> item map built by the successful inserts and
\* deletes: `key in tree` holds exactly for the keys of the map, tree[key]
\* is the item of the map, and len(tree) is the number of its keys (a
\* delete removes its key and nothing else).
C6_MapRefinement ==
    /\ \A k \in Keys :
          contains(heap, root, k) = [err |-> OK, v |-> k \in DOMAIN absmap]
    /\ \A k \in DOMAIN absmap :
          getitem(heap, root, k) = [err |-> OK, v |-> absmap[k]]
    /\ length = Cardinality(DOMAIN absmap)

\* A delete from a full tree has left a root with two children, and the
\* items that stay are not all the same.
C6_Witness ==
    /\ res.op = "del" /\ res.err = OK
    /\ Cardinality(DOMAIN absmap) = MaxKey - 1
    /\ TwoChildren(root)
    /\ \E k1, k2 \in DOMAIN absmap : absmap[k1] # absmap[k2]

\* ------------------------------------------------------------------ C7
\* The nodes of the subtree of n, in order: left subtree, n, right subtree.
RECURSIVE InOrder(_, _)
InOrder(h, n) ==
    IF n = Null THEN <<>>
    ELSE InOrder(h, h[n].left) \o <<n>> \o InOrder(h, h[n].right)

InOrderKeys(h, n) == [x \in 1..Len(InOrder(h, n)) |-> h[InOrder(h, n)[x]].key]
InOrderItems(h, n) == [x \in 1..Len(InOrder(h, n)) |-> h[InOrder(h, n)[x]].item]

\* C7: for 0 <= index < len(tree), lookup(root, index) returns the node
\* whose key is the index-th key (from 0) of the ascending in-order
\* sequence.
C7_LookupRank ==
    [][\A index \in Indexes :
          (LookupAt(index) /\ 0 <= index /\ index < length) =>
              /\ res'.err = OK
              /\ heap'[res'.val[1]].key = InOrderKeys(heap, root)[index + 1]]_vars

\* lookup has returned the node of the largest key of a full tree.
C7_Witness ==
    /\ res.op = "lookup" /\ res.err = OK
    /\ length = MaxKey
    /\ heap[res.val[1]].key = MaxKey

\* ------------------------------------------------------------------ C8
\* C8: for 0 <= i <= j <= len(tree) - 1, range_between(i, j) returns the
\* j - i + 1 items stored at the ranks i, i + 1, ..., j, in that order.
C8_RangeBetween ==
    [][\A i, j \in Indexes :
          (RangeBetweenOf(i, j) /\ 0 <= i /\ i <= j /\ j <= length - 1) =>
              /\ res'.err = OK
              /\ res'.val = [x \in 1..(j - i + 1) |->
                                InOrderItems(heap, root)[i + x]]]_vars

\* range_between has returned every item of a full tree, not all the same.
C8_Witness ==
    /\ res.op = "range" /\ res.err = OK
    /\ length = MaxKey
    /\ Len(res.val) = MaxKey
    /\ \E a, b \in 1..Len(res.val) : res.val[a] # res.val[b]

\* ------------------------------------------------------------------ C9
TreeUnchanged == heap' = heap /\ root' = root /\ length' = length

\* C9: __setitem__ with a key that is in the tree raises ValueError and
\* leaves the tree as it was: links, keys, items, count, cached heights
\* and sizes.
C9_DuplicateInsert ==
    [][\A key \in Keys, item \in Items :
          (SetitemTo(key, item) /\ key \in KeysIn(heap, root)) =>
              (res'.err = "ValueError" /\ TreeUnchanged)]_vars

\* An insert into a tree of MaxKey - 1 keys has raised ValueError.
C9_Witness ==
    /\ res.op = "set" /\ res.err = "ValueError"
    /\ length = MaxKey - 1

\* ----------------------------------------------------------------- C10
\* C10: for a key that is not in the tree, __delitem__ raises ValueError,
\* __getitem__ raises KeyError, `key in tree` is False without an
\* exception, and each leaves the tree as it was.
C10_AbsentKey ==
    [][\A key \in Keys :
          key \notin KeysIn(heap, root) =>
              /\ DelitemOf(key) => (res'.err = "ValueError" /\ TreeUnchanged)
              /\ GetitemOf(key) => (res'.err = "KeyError" /\ TreeUnchanged)
              /\ ContainsOf(key) =>
                    (res'.err = OK /\ res'.val = <<FALSE>> /\ TreeUnchanged)]_vars

\* A delete on a tree of MaxKey - 1 keys has raised ValueError.
C10_Witness ==
    /\ res.op = "del" /\ res.err = "ValueError"
    /\ length = MaxKey - 1

\* ----------------------------------------------------------------- C11
\* C11: range_between(i, j) raises ValueError and returns no list whenever
\* the tree is empty, or i or j lies outside 0..len(tree)-1, or i > j
\* (so also for j = len(tree), for j = len(tree) + 1, and for
\* range_between(0, 0) on an empty tree).
C11_RangeRejects ==
    [][\A i, j \in Indexes :
          (RangeBetweenOf(i, j)
             /\ (length = 0 \/ i < 0 \/ i > length - 1
                               \/ j < 0 \/ j > length - 1 \/ i > j)) =>
              (res'.err = "ValueError" /\ res'.val = <<>>)]_vars

\* ----------------------------------------------------------------- C12
\* C12: lookup(root, index) with index < 0 or index >= len(tree), an empty
\* tree included, raises the error of an index out of range (IndexError,
\* or the ValueError of range_between): it returns no node and does not
\* fail in another way, as by reading a field of None.
C12_LookupRejects ==
    [][\A index \in Indexes :
          (LookupAt(index) /\ (index < 0 \/ index >= length)) =>
              res'.err \in {"IndexError", "ValueError"}]_vars

\* ----------------------------------------------------------------- C13
\* C13: inserting distinct keys, in any order, and then deleting them all,
\* in any order, leaves an empty tree (len(tree) = 0, root None, is_empty()
\* True), and none of these calls raises: an insert of a key that is not
\* stored and a delete of a key that is stored always succeed.
C13_InsertAllDeleteAll ==
    [][/\ \A key \in RotKeys :
             /\ (SetitemWith(key, key, TRUE) /\ key \notin DOMAIN absmap) =>
                    res'.err = OK
             /\ (DelitemWith(key, TRUE) /\ key \in DOMAIN absmap) =>
                    res'.err = OK
       /\ DOMAIN absmap' = {} =>
             (length' = 0 /\ root' = Null /\ is_empty(root'))]_vars

\* The last of the stored keys has just been deleted.
C13_Witness ==
    /\ res.op = "del" /\ res.err = OK
    /\ DOMAIN absmap = {}
    /\ is_empty(root)

\* ------------------------------------------------- the rotation journal
\* The node a rotation call promotes, and the subtree that changes sides.
Promoted(e) ==
    IF e.op = "left_rotate" THEN e.before[e.node].right
    ELSE e.before[e.node].left

Center(e) ==
    IF e.op = "left_rotate" THEN e.before[Promoted(e)].left
    ELSE e.before[Promoted(e)].right

\* The cached height and size of n are what its children's give.
CachesRecomputed(h, n) ==
    /\ h[n].height = 1 + Max(get_height(h, h[n].left),
                             get_height(h, h[n].right))
    /\ h[n].size = 1 + CachedSize(h, h[n].left) + CachedSize(h, h[n].right)

\* ----------------------------------------------------------------- C14
\* C14: when left_rotate(node) or right_rotate(node) returns, the cached
\* height and the cached size of the demoted node and of the promoted
\* child are the values recomputed from their new children (so three keys
\* inserted in ascending or in descending order leave the middle key at
\* the root with cached height 2 over two children of cached height 1).
C14_RotationCaches ==
    \A x \in 1..Len(rots) :
        rots[x].err = OK =>
            /\ CachesRecomputed(rots[x].after, rots[x].node)
            /\ CachesRecomputed(rots[x].after, Promoted(rots[x]))

\* ----------------------------------------------------------------- C15
\* The links a rotation call is to leave, e being its journal entry.
RotationLinks(e) ==
    LET child == Promoted(e)
        center == Center(e)
        b == e.before
        a == e.after
    IN /\ e.ret = child
       /\ IF e.op = "left_rotate"
          THEN /\ a[child].left = e.node
               /\ a[e.node].right = center
               /\ a[child].right = b[child].right
               /\ a[e.node].left = b[e.node].left
          ELSE /\ a[child].right = e.node
               /\ a[e.node].left = center
               /\ a[child].left = b[child].left
               /\ a[e.node].right = b[e.node].right
       /\ \A n \in Nodes(b, e.node) \ {e.node, child} :
              a[n].left = b[n].left /\ a[n].right = b[n].right

\* C15: every rotation call that rebalance makes during an insert or a
\* delete, the inner rotation of a double rotation included, returns the
\* child it was to promote, with the demoted node as that child's new
\* child, the center subtree moved across, and no other link changed.
C15_RotationLinks ==
    \A x \in 1..Len(rots) : rots[x].err = OK => RotationLinks(rots[x])

\* ----------------------------------------------------------------- C16
\* C16: left_rotate called on None or on a node without a right child, and
\* right_rotate called on None or on a node without a left child, raise
\* ValueError and have changed no link, height or size.
C16_InvalidRotation ==
    [][\A link \in Links :
          /\ (RotateAt("left_rotate", link)
                 /\ (Target(link) = Null \/ heap[Target(link)].right = Null)) =>
                (res'.err = "ValueError" /\ TreeUnchanged)
          /\ (RotateAt("right_rotate", link)
                 /\ (Target(link) = Null \/ heap[Target(link)].left = Null)) =>
                (res'.err = "ValueError" /\ TreeUnchanged)]_vars

\* left_rotate has been refused at a node of a tree of three keys or more.
C16_Witness ==
    /\ res.op = "left_rotate" /\ res.err = "ValueError"
    /\ length >= 3

\* ----------------------------------------------------------------- C17
\* C17: no sequence of __setitem__ / __delitem__ calls from the empty tree
\* makes rebalance call a rotation on an absent node or without the child
\* to promote, so no rotation raises ValueError, and rebalance never reads
\* child.left / child.right of an absent child (AttributeError).
C17_NoInvalidRotation ==
    /\ \A x \in 1..Len(rots) :
          /\ rots[x].node # Null
          /\ Promoted(rots[x]) # Null
          /\ rots[x].err # "ValueError"
    /\ res.err # "AttributeError"

\* A delete has made rebalance rotate, more than once.
C17_Witness ==
    /\ res.op = "del" /\ res.err = OK
    /\ Len(rots) >= 2

\* ----------------------------------------------------------------- C18
\* C18: every __setitem__ and __delitem__ returns: the chain of rebalance
\* and rotation calls, each rotation ending in a rebalance of the node it
\* promoted, ends after finitely many rotations, well within
\* MaxRecursion nested calls.
C18_Terminates ==
    /\ res.err # "RecursionError"
    /\ \A x \in 1..Len(rots) : rots[x].err # "RecursionError"

\* A call has returned in which the rebalance that ends a rotation rotated
\* again: the journal holds more than the two rotations of a double one.
C18_Witness ==
    /\ res.err = OK
    /\ Len(rots) >= 4

\* ----------------------------------------------------------------- C19
\* C19: lookup, range_between, __getitem__, __contains__, get_successor,
\* get_minimal, get_maximal and in-order iteration leave the tree as it
\* was: links, keys, items, count, and the cached height and size of
\* every node, although size() stores a size into every node it is asked
\* about.
C19_ReadOnly == [][ReadOnly => TreeUnchanged]_vars

\* lookup has returned a node of a full tree whose root has two children,
\* after an iterator has run through that tree.
C19_Witness ==
    /\ res.op = "lookup" /\ res.err = OK
    /\ length = MaxKey
    /\ TwoChildren(root)
    /\ iters[1].live /\ iters[1].done

\* ----------------------------------------------------------------- C20
\* C20: iterators over the same tree, advanced in any interleaving while
\* the tree is not changed, do not disturb each other: what each has
\* yielded is at every moment the beginning of the ascending key sequence
\* of the tree (a new iterator starts at the smallest key), and the whole
\* of it when the iterator raises StopIteration.
C20_IndependentIterators ==
    \A s \in 1..NumIters :
        iters[s].live =>
            LET all == InOrderKeys(heap, root)
                out == iters[s].out
            IN /\ Len(out) <= Len(all)
               /\ out = [x \in 1..Len(out) |-> all[x]]
               /\ iters[s].done => out = all

\* One iterator has run through a full tree while the other has yielded
\* its first key only.
C20_Witness ==
    /\ length = MaxKey
    /\ iters[1].live /\ iters[1].done /\ Len(iters[1].out) = MaxKey
    /\ iters[2].live /\ ~iters[2].done /\ Len(iters[2].out) = 1

\* ----------------------------------------------------------------- C21
\* The node of a set of nodes with the smallest / the largest key, None
\* (Null) for the empty set.
Smallest(h, ns) ==
    IF ns = {} THEN Null
    ELSE CHOOSE m \in ns : \A n \in ns : h[m].key <= h[n].key

Largest(h, ns) ==
    IF ns = {} THEN Null
    ELSE CHOOSE m \in ns : \A n \in ns : h[m].key >= h[n].key

RECURSIVE Leftmost(_, _)
Leftmost(h, n) == IF h[n].left = Null THEN n ELSE Leftmost(h, h[n].left)

OneParent(h, rt) ==
    \A n \in Nodes(h, rt) :
        Cardinality({p \in Nodes(h, rt) : h[p].left = n})
            + Cardinality({p \in Nodes(h, rt) : h[p].right = n})
            + (IF rt = n THEN 1 ELSE 0) = 1

\* No rotation call of the journal adds a node to the subtree it is called
\* on or detaches one from it.
RotationsKeepNodes(journal) ==
    \A x \in 1..Len(journal) :
        journal[x].err = OK =>
            Nodes(journal[x].after, journal[x].ret)
                = Nodes(journal[x].before, journal[x].node)

SameKeyAndItem(h1, h2, n) ==
    h1[n].key = h2[n].key /\ h1[n].item = h2[n].item

\* What insert_aux(root, key, key) does to the node objects of the tree; r
\* is the outcome of the call, before the identities are renamed.
InsertAccounted(key) ==
    \A r \in {insert_aux(heap, length, root, key, key)} :
    LET old == Nodes(heap, root)
    IN IF r.err = OK
       THEN LET now == Nodes(r.h, r.r)
                new == now \ old
            IN /\ Cardinality(new) = 1
               /\ old \subseteq now
               /\ DOMAIN r.h \ DOMAIN heap = new
               /\ \A n \in new :
                     /\ r.h[n].key = key /\ r.h[n].item = key
                     /\ r.rot = <<>> =>
                           /\ is_leaf(r.h, n)
                           /\ r.h[n].height = 1 /\ r.h[n].size = 1
               /\ \A n \in old : SameKeyAndItem(r.h, heap, n)
               /\ OneParent(r.h, r.r)
               /\ RotationsKeepNodes(r.rot)
       ELSE /\ Nodes(r.h, root) = old
            /\ DOMAIN r.h = DOMAIN heap
            /\ OneParent(r.h, root)
            /\ RotationsKeepNodes(r.rot)

\* What delete_aux(root, key) does to the node objects of the tree.
DeleteAccounted(key) ==
    \A r \in {delete_aux(heap, length, root, key)} :
    LET old == Nodes(heap, root)
    IN IF r.err = OK
       THEN LET now == Nodes(r.h, r.r)
                gone == old \ now
                n == CHOOSE m \in old : heap[m].key = key
                succ == Smallest(heap,
                            {m \in old : heap[m].key > heap[n].key})
            IN /\ Cardinality(gone) = 1
               /\ now \subseteq old
               /\ DOMAIN r.h = DOMAIN heap
               /\ IF TwoChildren(n)
                  THEN /\ n \in now
                       /\ gone = {succ}
                       /\ SameKeyAndItem(r.h, heap, n) = FALSE
                       /\ r.h[n].key = heap[succ].key
                       /\ r.h[n].item = heap[succ].item
                       /\ \A m \in now \ {n} : SameKeyAndItem(r.h, heap, m)
                  ELSE /\ gone = {n}
                       /\ \A m \in now : SameKeyAndItem(r.h, heap, m)
               /\ OneParent(r.h, r.r)
               /\ RotationsKeepNodes(r.rot)
       ELSE /\ Nodes(r.h, root) = old
            /\ DOMAIN r.h = DOMAIN heap
            /\ OneParent(r.h, root)
            /\ RotationsKeepNodes(r.rot)

\* C22: a successful insert adds exactly one new node object, created as a
\* leaf with height = size = 1, and keeps every node there was; a
\* successful delete detaches exactly one node; when the deleted key sits
\* in a node with two children that node stays, overwritten with its
\* successor's key and item, and the successor's node is the one detached;
\* rotations and failed calls neither add nor detach a node; every node of
\* the tree is held by exactly one reference.
C22_NodeAccounting ==
    [][\A key \in RotKeys :
          /\ SetitemWith(key, key, TRUE) => InsertAccounted(key)
          /\ DelitemWith(key, TRUE) => DeleteAccounted(key)]_vars

\* A delete from a full tree has returned after rotating, and left a root
\* with two children.
C22_Witness ==
    /\ res.op = "del" /\ res.err = OK
    /\ length = MaxRotKey - 1
    /\ Len(rots) >= 1
    /\ TwoChildren(root)

\* ----------------------------------------------------------------- C23
\* C23: the table is a map, whatever insert / __setitem__ calls were made,
\* rehashing and colliding ones included: table[k] returns the data most
\* recently set for k; for a key never set, k in table is False and
\* table[k] raises KeyError; setting a key that is there overwrites its
\* data and leaves len(table) as it was, so that len(table) is the number
\* of distinct keys set; and no insert / __setitem__ fails.
C23_TableIsMap ==
    lpt # Absent =>
        /\ \A key \in DOMAIN past.map :
              /\ lpt_getitem(lpt, key).err = OK
              /\ lpt_getitem(lpt, key).v = <<past.map[key]>>
              /\ lpt_contains(lpt, key).v = <<TRUE>>
        /\ \A key \in TableKeys \ DOMAIN past.map :
              /\ lpt_getitem(lpt, key).err = "KeyError"
              /\ lpt_contains(lpt, key).err = OK
              /\ lpt_contains(lpt, key).v = <<FALSE>>
        /\ lpt.count = Cardinality(DOMAIN past.map)
        /\ res.op \in {"setitem", "insert"} => res.err = OK

\* Every key has been set, through two rehashes and at least one
\* collision, and a key has just been looked up.
C23_Witness ==
    /\ lpt # Absent
    /\ DOMAIN past.map = TableKeys
    /\ lpt.rehash_count >= 2
    /\ lpt.conflict_count >= 1
    /\ res.op = "getitem" /\ res.err = OK

\* ----------------------------------------------------------------- C24
\* n is prime: it has exactly the two divisors 1 and n.
IsPrime(n) == n >= 2 /\ \A d \in 2..(n - 1) : n % d # 0

\* The (key, data) pairs a table holds.
Pairs(t) == {t.table[x] : x \in DOMAIN t.table} \ {NoEntry}

\* What a __setitem__ / insert of key and data does, from the table before
\* the call to the table after it.
RehashedWhenDue(key, data) ==
    /\ res'.err = OK
    /\ IF 2 * lpt.count > lpt.tablesize
       THEN /\ lpt'.rehash_count = lpt.rehash_count + 1
            /\ IsPrime(lpt'.tablesize)
            /\ lpt'.tablesize >= 2 * lpt.tablesize
       ELSE /\ lpt'.rehash_count = lpt.rehash_count
            /\ lpt'.tablesize = lpt.tablesize
    /\ Len(lpt'.table) = lpt'.tablesize
    /\ Pairs(lpt') =
          {e \in Pairs(lpt) : e[1] # key} \cup {<<key, data>>}
    /\ lpt'.count = Cardinality(Pairs(lpt'))
    /\ lpt'.count =
          lpt.count + (IF \E e \in Pairs(lpt) : e[1] = key THEN 0 ELSE 1)

\* C24: __setitem__ rehashes exactly when count > tablesize / 2 at the
\* entry of the call; the reinsertions inside _rehash never rehash again,
\* so rehash_count grows by exactly 1 in a call that rehashes (and not at
\* all in another); after the rehash the table size is a prime and at
\* least twice the old size, and the count and every (key, data) pair are
\* preserved.
C24_RehashOnce ==
    [][\A op \in {"setitem", "insert"}, key \in TableKeys, data \in Items :
          res'.op = op /\ TableSet(op, key, data)
              => RehashedWhenDue(key, data)]_vars

\* A __setitem__ has just rehashed a table for the second time, with a
\* collision on the way.
C24_Witness ==
    /\ lpt # Absent
    /\ res.op = "setitem" /\ res.err = OK
    /\ lpt.rehash_count = 2
    /\ lpt.tablesize > 2 * past.tablesize
    /\ lpt.conflict_count >= 1
    /\ lpt.count = 4

\* ----------------------------------------------------------------- C25
\* The first prime that is at least n.
RECURSIVE FirstPrimeFrom(_)
FirstPrimeFrom(n) == IF IsPrime(n) THEN n ELSE FirstPrimeFrom(n + 1)

\* C25: a table built without override (tablesize_override = -1) for an
\* expected size of at least 3 has as its size the first prime that is at
\* least the expected size (11 for an expected size of 11 or of 10).
C25_FirstPrimeSize ==
    (/\ res.op = "LinearProbeTable" /\ res.err = OK
     /\ past.tablesize_override = 0 - 1
     /\ past.expected_size >= 3)
        => lpt.tablesize = FirstPrimeFrom(past.expected_size)

\* ----------------------------------------------------------------- C26
\* The largest prime below n, for n >= 3.
RECURSIVE LargestPrimeBelow(_)
LargestPrimeBelow(n) ==
    IF IsPrime(n - 1) THEN n - 1 ELSE LargestPrimeBelow(n - 1)

Increasing(s) == \A x \in 1..(Len(s) - 1) : s[x] < s[x + 1]

\* C26: every __next__ returns the largest prime strictly below the upper
\* bound at the time of the call, then makes the upper bound that prime
\* times the factor; with factor 2 and an initial upper bound of at least
\* 3, every call terminates and the primes returned strictly increase.
C26_LargestPrime ==
    [][PrimesNext =>
          /\ primes.upper_bound >= 3 =>
                /\ res'.err = OK
                /\ res'.val = <<LargestPrimeBelow(primes.upper_bound)>>
                /\ primes'.upper_bound = res'.val[1] * primes.factor
          /\ past.factor = 2 =>
                /\ res'.err = OK
                /\ Increasing(past'.returned)]_vars

\* An iterator with factor 2 has returned five primes.
C26_Witness ==
    /\ primes # Absent
    /\ past.factor = 2
    /\ Len(past.returned) >= 5
    /\ res.op = "next" /\ res.err = OK

\* ----------------------------------------------------------------- C27
\* The shape of the tree under n: which key sits where.
RECURSIVE Shape(_, _)
Shape(h, n) ==
    IF n = Null THEN <<>>
    ELSE <<h[n].key, Shape(h, h[n].left), Shape(h, h[n].right)>>

\* C27: after every sequence of inserts and deletes, the tree has the shape
\* of the tree the reference procedure builds from the same calls: a
\* rotation returns the promoted child without rebalancing again,
\* rebalancing is applied exactly once per ancestor on the unwind, and a
\* double rotation is made only when the inner grandchild is strictly
\* taller.
C27_ReferenceShape == Shape(heap, root) = ref

BaseTreeValid(h, rt, len) ==
    /\ \A n \in Nodes(h, rt) :
          /\ \A k \in KeysIn(h, h[n].left) : k < h[n].key
          /\ \A k \in KeysIn(h, h[n].right) : k > h[n].key
    /\ len = Cardinality(Nodes(h, rt))
    /\ is_empty(rt) <=> len = 0

\* C29: for the unbalanced BinarySearchTree, after any sequence of
\* __setitem__ / __delitem__ every node's key is above every key of its
\* left subtree and below every key of its right subtree, len(tree) is the
\* number of nodes the root leads to, and is_empty() holds exactly when
\* len(tree) is 0; an insert of a key that is there and a delete of a key
\* that is not raise ValueError and leave the tree and its length as they
\* were.
C29_BaseTree ==
    [][/\ BaseTreeValid(heap', root', length')
       /\ BaseIsEmpty => res'.val = <<length = 0>>
       /\ BaseLen => res'.val = <<Cardinality(Nodes(heap, root))>>
       /\ \A key \in Keys :
             /\ \A item \in Items :
                   BaseSetitemOf(key, item) =>
                       IF key \in KeysIn(heap, root)
                       THEN /\ res'.err = "ValueError"
                            /\ UNCHANGED <<heap, root, length>>
                       ELSE /\ res'.err = OK
                            /\ KeysIn(heap', root')
                                   = KeysIn(heap, root) \cup {key}
             /\ BaseDelitemOf(key) =>
                   IF key \notin KeysIn(heap, root)
                   THEN /\ res'.err = "ValueError"
                        /\ UNCHANGED <<heap, root, length>>
                   ELSE /\ res'.err = OK
                        /\ KeysIn(heap', root')
                               = KeysIn(heap, root) \ {key}]_vars

\* A delete has taken a key out of a full tree that was a chain: every
\* node of the tree left has at most one child.
C29_Witness ==
    /\ res.op = "del" /\ res.err = OK
    /\ length = MaxKey - 1
    /\ \A n \in Nodes(heap, root) :
          heap[n].left = Null \/ heap[n].right = Null
    /\ "height" \notin DOMAIN heap[root]

\* ----------------------------------------------------------------- C30
\* C30: for a table whose initial size is at least 3, after every
\* __setitem__ count <= floor(tablesize / 2) + 1 < tablesize, so the table
\* is never full, every probe for an insertion finds an empty slot or the
\* key, and __setitem__ never raises KeyError; and conflict_count <=
\* probe_total and probe_max <= probe_total.
C30_NeverFull ==
    (lpt # Absent /\ past.tablesize >= 3) =>
        /\ lpt.count <= (lpt.tablesize \div 2) + 1
        /\ (lpt.tablesize \div 2) + 1 < lpt.tablesize
        /\ ~is_full(lpt)
        /\ \A key \in TableKeys : linear_probe(lpt, key, TRUE).err = OK
        /\ res.err # "KeyError" \/ res.op = "getitem"
        /\ lpt.conflict_count <= lpt.probe_total
        /\ lpt.probe_max <= lpt.probe_total

\* An insert has just filled a table of size 3 up to floor(3 / 2) + 1
\* entries, after a probe that had to step over a slot.
C30_Witness ==
    /\ lpt # Absent
    /\ res.op = "insert" /\ res.err = OK
    /\ lpt.tablesize = 3
    /\ lpt.count = 2
    /\ lpt.conflict_count = 1
    /\ lpt.probe_max = 1

====
